---- MODULE Spec2Model ----
(***************************************************************************)
(* A model of the manual-mode deadlock detector: the resource-allocation   *)
(* graph of deadlock_detector.py (DeadlockDetector), the Banker snapshot   *)
(* of banker_algorithm.py (BankerAlgorithm) that it owns, and the request  *)
(* handlers of app.py that call them on one module-level detector.         *)
(*                                                                         *)
(* Python dicts keep insertion order, so a dict is modelled by the         *)
(* sequence of its keys plus total functions for its values; where no      *)
(* operation reads the order (the resources dict, whose loops only sum or  *)
(* compare per resource, and the edge list, which is only appended to and  *)
(* filtered) the keys are a set and the list a bag.  An absent entry of a  *)
(* Banker matrix is 0, which is what every read of a possibly absent entry *)
(* (.get(key, 0)) yields.  Process ids and resource ids are drawn from two *)
(* disjoint sets.                                                          *)
(***************************************************************************)
EXTENDS Integers, Sequences, FiniteSets, Bags, TLC

\* ------------------------------------------------------------------ bounds
ProcIds == {"P1", "P2"}
\* an id that is a numeral, registered only by the callers of SpecRecovery
NumeralIds == {"7"}
\* every id add_process is called with
GraphIds == ProcIds \cup NumeralIds
ResIds == {"R1", "R2"}
Threads == {"t1", "t2"}

\* instance counts a caller passes to add_resource: 1 .. MaxInstances
MaxInstances == 2
\* the edge log never grows beyond MaxEdges entries
MaxEdges == 4
\* an allocation list never grows beyond MaxHeld entries
MaxHeld == 1
\* a request list never grows beyond MaxRequests entries
MaxRequests == 1
\* at most MaxIrregular calls of a run re-register an existing id, pass an
\* instance count below 1 or reset the detector, each made while the edge log
\* has at most MaxIrregularEdges entries, and the log does not grow beyond that
\* afterwards
MaxIrregular == 1
MaxIrregularEdges == 1

InstanceChoices == 1 .. MaxInstances
\* instance counts below 1, which the route passes on as they come
InvalidInstanceChoices == {-1, 0}

\* --------------------------------------------------------------- utilities
InSeq(x, s) == \E i \in 1 .. Len(s) : s[i] = x

Count(s, x) == Cardinality({i \in 1 .. Len(s) : s[i] = x})

Index(s, x) == CHOOSE i \in 1 .. Len(s) : s[i] = x /\ \A j \in 1 .. (i - 1) : s[j] # x

Range(s) == {s[i] : i \in 1 .. Len(s)}

\* a delete that deletes nothing
WithoutNothing(s, x) == s

Without(s, x) == SelectSeq(s, LAMBDA y : y # x)

RECURSIVE SumOver(_, _)
SumOver(f, S) ==
    IF S = {} THEN 0
    ELSE LET x == CHOOSE y \in S : TRUE IN f[x] + SumOver(f, S \ {x})

RECURSIVE Repeat(_, _)
Repeat(x, n) == IF n <= 0 THEN << >> ELSE <<x>> \o Repeat(x, n - 1)

\* every order in which a set of that content can be iterated
RECURSIVE Orders(_)
Orders(S) ==
    IF S = {} THEN {<< >>}
    ELSE UNION {{<<x>> \o o : o \in Orders(S \ {x})} : x \in S}

\* the shape of `last`: the handler, its arguments, and what it returned
Call(op, pid, rid, n, ret, seq, procs, err) ==
    [op |-> op, pid |-> pid, rid |-> rid, n |-> n, ret |-> ret, seq |-> seq,
     procs |-> procs, err |-> err]

NoCall == Call("none", "", "", 0, FALSE, << >>, << >>, "")

VARIABLES
    detector,   \* the DeadlockDetector's own fields
    banker,     \* detector.banker, the BankerAlgorithm's fields
    last,       \* the last handler called and what it returned
    irregular,  \* how many calls so far re-registered an id or reset
    pc,         \* per request thread: where it is in its handler
    local       \* per request thread: the handler's local variables

vars == <<detector, banker, last, irregular, pc, local>>

\* ------------------------------------------------- BankerAlgorithm.__init__
ZeroMatrix == [pr \in GraphIds \X ResIds |-> 0]
ZeroVector == [r \in ResIds |-> 0]

\* banker.processes and banker.resources are references: after initialize they
\* are the detector's own dicts (linked), until reset rebinds the detector's
\* fields to new dicts and the banker keeps the old ones (processes, resources,
\* instances hold their contents then).
BankerNew ==
    [linked |-> FALSE, processes |-> << >>, resources |-> {}, instances |-> ZeroVector,
     keys |-> {},
     max_need |-> ZeroMatrix, allocation |-> ZeroMatrix, need |-> ZeroMatrix,
     available |-> ZeroVector]

\* ----------------------------------------------- DeadlockDetector.__init__
DetectorNew ==
    [processes |-> << >>, resources |-> {}, instances |-> ZeroVector,
     available |-> ZeroVector,
     allocation |-> [p \in GraphIds |-> << >>], request |-> [p \in GraphIds |-> << >>],
     edges |-> EmptyBag]

\* What banker.processes / banker.resources / their instance counts denote.
BankerProcesses(d, b) == IF b.linked THEN d.processes ELSE b.processes
BankerResources(d, b) == IF b.linked THEN d.resources ELSE b.resources
BankerInstances(d, b) == IF b.linked THEN d.instances ELSE b.instances

\* -------------------------------------------------- BankerAlgorithm.initialize
\* Only the rows of the processes passed in are rewritten (each gets a new
\* inner dict keyed by the resources passed in); rows of other process ids stay
\* as they were.  keys is the set of (process, resource) pairs the matrices
\* have an entry for.  available is rebuilt from the instance counts.
initialize(b, procs, res, inst) ==
    [linked |-> TRUE, processes |-> << >>, resources |-> {}, instances |-> ZeroVector,
     keys |-> {pr \in b.keys : ~InSeq(pr[1], procs)} \cup (Range(procs) \X res),
     allocation |->
        [pr \in GraphIds \X ResIds |->
            IF InSeq(pr[1], procs)
            THEN 0
            ELSE b.allocation[pr]],
     max_need |->
        [pr \in GraphIds \X ResIds |->
            IF InSeq(pr[1], procs)
            THEN (IF pr[2] \in res THEN inst[pr[2]] ELSE 0)
            ELSE b.max_need[pr]],
     need |->
        [pr \in GraphIds \X ResIds |->
            IF InSeq(pr[1], procs)
            THEN (IF pr[2] \in res THEN inst[pr[2]] ELSE 0)
            ELSE b.need[pr]],
     available |-> [r \in ResIds |-> IF r \in res THEN inst[r] ELSE 0]]

Max(a, c) == IF a >= c THEN a ELSE c

\* -------------------------------------------- BankerAlgorithm.update_allocation
update_allocation(b, p, r, amount) ==
    IF <<p, r>> \notin b.keys
    THEN b
    ELSE [b EXCEPT !.allocation[<<p, r>>] = @ + amount,
                   !.need[<<p, r>>] = Max(0, @ - amount),
                   !.available[r] = Max(0, @ - amount)]

\* ------------------------------------------------- DeadlockDetector.reset
\* The detector's dicts are replaced by new empty ones; the banker is not
\* touched, so its references keep the old dicts.
reset(d, b) ==
    [d |-> DetectorNew,
     b |-> IF b.linked
           THEN [b EXCEPT !.linked = FALSE, !.processes = d.processes,
                          !.resources = d.resources, !.instances = d.instances]
           ELSE b]

\* --------------------------------------------- DeadlockDetector.add_process
\* processes[process_id] = {...}: a new key goes last, an existing key keeps
\* its place and gets a new record with empty lists.
RegisterProcess(procs, p) == IF InSeq(p, procs) THEN procs ELSE Append(procs, p)

add_process(d, b, p) ==
    LET d2 == [d EXCEPT !.processes = RegisterProcess(d.processes, p),
                        !.allocation[p] = << >>,
                        !.request[p] = << >>]
    IN [d |-> d2,
        b |-> IF Cardinality(d2.resources) > 0
              THEN initialize(b, d2.processes, d2.resources, d2.instances)
              ELSE b]

\* -------------------------------------------- DeadlockDetector.add_resource
add_resource(d, b, r, n) ==
    LET d2 == [d EXCEPT !.resources = @ \cup {r},
                        !.instances[r] = n,
                        !.available[r] = n]
    IN [d |-> d2,
        b |-> IF Len(d2.processes) > 0
              THEN initialize(b, d2.processes, d2.resources, d2.instances)
              ELSE b]

\* ---------------------------------------- DeadlockDetector.allocate_resource
\* a guard that lets an allocation through at 0
HasInstanceOrNone(d, r) == d.available[r] >= 0

HasInstance(d, r) == d.available[r] > 0

\* an allocation that forgets the edge
allocate_without_edge(d, b, p, r) ==
    IF ~InSeq(p, d.processes) \/ r \notin d.resources
    THEN [d |-> d, b |-> b, ret |-> FALSE]
    ELSE IF HasInstance(d, r)
    THEN [d |-> [d EXCEPT !.allocation[p] = Append(@, r),
                          !.available[r] = @ - 1],
          b |-> update_allocation(b, p, r, 1),
          ret |-> TRUE]
    ELSE [d |-> d, b |-> b, ret |-> FALSE]

allocate_resource(d, b, p, r) ==
    IF ~InSeq(p, d.processes) \/ r \notin d.resources
    THEN [d |-> d, b |-> b, ret |-> FALSE]
    ELSE IF HasInstance(d, r)
    THEN [d |-> [d EXCEPT !.allocation[p] = Append(@, r),
                          !.available[r] = @ - 1,
                          !.edges = @ (+) SetToBag({<<r, p, "allocation">>})],
          b |-> update_allocation(b, p, r, 1),
          ret |-> TRUE]
    ELSE [d |-> d, b |-> b, ret |-> FALSE]

\* ----------------------------------------- DeadlockDetector.request_resource
\* a request that is refused while no instance is available
request_if_available(d, b, p, r) ==
    IF ~InSeq(p, d.processes) \/ r \notin d.resources \/ ~HasInstance(d, r)
    THEN [d |-> d, b |-> b, ret |-> FALSE]
    ELSE [d |-> [d EXCEPT !.request[p] = Append(@, r),
                          !.edges = @ (+) SetToBag({<<p, r, "request">>})],
          b |-> b,
          ret |-> TRUE]

request_resource(d, b, p, r) ==
    IF ~InSeq(p, d.processes) \/ r \notin d.resources
    THEN [d |-> d, b |-> b, ret |-> FALSE]
    ELSE [d |-> [d EXCEPT !.request[p] = Append(@, r),
                          !.edges = @ (+) SetToBag({<<p, r, "request">>})],
          b |-> b,
          ret |-> TRUE]

\* ------------------------------------------ DeadlockDetector.remove_process
ReleasedAvailable(d, p) ==
    [r \in ResIds |->
        IF r \in d.resources THEN d.available[r] + Count(d.allocation[p], r)
        ELSE d.available[r]]

\* a removal that reports success and removes nothing
remove_nothing(d, b, p) == [d |-> d, b |-> b, ret |-> InSeq(p, d.processes)]

remove_process(d, b, p) ==
    IF InSeq(p, d.processes)
    THEN LET d2 == [d EXCEPT !.available = ReleasedAvailable(d, p),
                             !.edges = [e \in {x \in DOMAIN @ : x[1] # p /\ x[2] # p} |-> @[e]],
                             !.processes = Without(@, p),
                             !.allocation[p] = << >>,
                             !.request[p] = << >>]
         IN [d |-> d2,
             b |-> IF Len(d2.processes) > 0 /\ Cardinality(d2.resources) > 0
                   THEN initialize(b, d2.processes, d2.resources, d2.instances)
                   ELSE b,
             ret |-> TRUE]
    ELSE [d |-> d, b |-> b, ret |-> FALSE]

\* ------------------------------------------ DeadlockDetector.detect_deadlock
\* graph[node]: a process points to each resource of its request list, in list
\* order; a resource points to each process holding it, once per held unit, in
\* the order of the processes dict and of each allocation list.
RECURSIVE Holders(_, _, _)
Holders(d, r, i) ==
    IF i > Len(d.processes) THEN << >>
    ELSE Repeat(d.processes[i], Count(d.allocation[d.processes[i]], r)) \o Holders(d, r, i + 1)

AllNodes(d) == Range(d.processes) \cup d.resources

\* a graph that keeps the holder edges of exhausted resources only
BuildGraphExhaustedOnly(d) ==
    [n \in AllNodes(d) |->
        IF InSeq(n, d.processes) THEN d.request[n]
        ELSE IF d.available[n] > 0 THEN << >>
        ELSE Holders(d, n, 1)]

\* the graph a builder that forgot the holder edges would produce
BuildGraphRequestsOnly(d) ==
    [n \in AllNodes(d) |-> IF InSeq(n, d.processes) THEN d.request[n] ELSE << >>]

BuildGraph(d) ==
    [n \in AllNodes(d) |-> IF InSeq(n, d.processes) THEN d.request[n] ELSE Holders(d, n, 1)]

\* elif neighbor in rec_stack
OnRecStack(st, neighbor) == neighbor \in st.rec_stack

\* the whole path instead of its slice from the neighbor's first occurrence
CycleFromRoot(path, neighbor) == Append(path, neighbor)

\* cycle = path[cycle_start_idx:] + [neighbor]
CycleFrom(path, neighbor) == SubSeq(path, Index(path, neighbor), Len(path)) \o <<neighbor>>

\* has_cycle_dfs works on shared visited / rec_stack / path objects; st carries
\* them, and st.cycle is the value returned (<< >> for None).
RECURSIVE has_cycle_dfs(_, _, _)
RECURSIVE VisitNeighbors(_, _, _, _)
has_cycle_dfs(graph, node, st) ==
    LET entered == [visited |-> st.visited \cup {node},
                    rec_stack |-> st.rec_stack \cup {node},
                    path |-> Append(st.path, node),
                    cycle |-> << >>]
        r == VisitNeighbors(graph, node, 1, entered)
    IN IF r.cycle # << >> THEN r
       ELSE [r EXCEPT !.path = SubSeq(@, 1, Len(@) - 1), !.rec_stack = @ \ {node}]

VisitNeighbors(graph, node, i, st) ==
    IF i > Len(graph[node]) THEN st
    ELSE LET neighbor == graph[node][i] IN
         IF neighbor \notin st.visited
         THEN LET r == has_cycle_dfs(graph, neighbor, st) IN
              IF r.cycle # << >> THEN r ELSE VisitNeighbors(graph, node, i + 1, r)
         ELSE IF OnRecStack(st, neighbor)
         THEN [st EXCEPT !.cycle = CycleFrom(st.path, neighbor)]
         ELSE VisitNeighbors(graph, node, i + 1, st)

\* for node in all_nodes: all_nodes is a set, iterated in the order `order`
RECURSIVE VisitRoots(_, _, _, _)
VisitRoots(graph, order, i, visited) ==
    IF i > Len(order) THEN << >>
    ELSE IF order[i] \in visited THEN VisitRoots(graph, order, i + 1, visited)
    ELSE LET r == has_cycle_dfs(graph, order[i],
                      [visited |-> visited, rec_stack |-> {}, path |-> << >>, cycle |-> << >>])
         IN IF r.cycle # << >> THEN r.cycle
            ELSE VisitRoots(graph, order, i + 1, r.visited)

detect_deadlock(d, order) ==
    LET cycle == VisitRoots(BuildGraph(d), order, 1, {})
    IN [deadlock_detected |-> cycle # << >>,
        deadlock_cycle |-> cycle,
        deadlock_processes |-> SelectSeq(cycle, LAMBDA n : InSeq(n, d.processes))]

\* ------------------------------------------ BankerAlgorithm.check_safe_state
\* a scan that wants strictly more work than need
can_finish_strict(b, res, work, p) == \A r \in res : b.need[<<p, r>>] < work[r]

\* need[proc_id][res_id] > work.get(res_id, 0) for no resource
can_finish(b, res, work, p) == \A r \in res : ~(b.need[<<p, r>>] > work[r])

\* the last such process instead of the first
LastRunnable(b, procs, res, work, finish) ==
    LET runnable == {i \in 1 .. Len(procs) :
                        procs[i] \notin finish /\ can_finish(b, res, work, procs[i])}
    IN IF runnable = {} THEN 0
       ELSE CHOOSE i \in runnable : \A j \in runnable : i >= j

\* the first process of the dict, in its order, that is unfinished and can finish
\* (0 when the for loop ends without a break)
FirstRunnable(b, procs, res, work, finish) ==
    LET runnable == {i \in 1 .. Len(procs) :
                        procs[i] \notin finish /\ can_finish(b, res, work, procs[i])}
    IN IF runnable = {} THEN 0
       ELSE CHOOSE i \in runnable : \A j \in runnable : i <= j

\* work[res_id] = work.get(res_id, 0) + allocation[proc_id][res_id]
Release(b, res, work, p) ==
    [r \in ResIds |-> IF r \in res THEN work[r] + b.allocation[<<p, r>>] ELSE work[r]]

\* half the cap
HalfIterations(procs) == Len(procs) \div 2

MaxIterations(procs) == Len(procs) * 2

RECURSIVE SafetyLoop(_, _, _, _)
SafetyLoop(b, procs, res, st) ==
    IF ~(Len(st.safe_sequence) < Len(procs) /\ st.iterations < MaxIterations(procs))
    THEN st
    ELSE LET i == FirstRunnable(b, procs, res, st.work, st.finish) IN
         IF i = 0
         THEN [st EXCEPT !.iterations = @ + 1]
         ELSE SafetyLoop(b, procs, res,
                  [work |-> Release(b, res, st.work, procs[i]),
                   finish |-> st.finish \cup {procs[i]},
                   safe_sequence |-> Append(st.safe_sequence, procs[i]),
                   iterations |-> st.iterations + 1])

check_safe_state(d, b) ==
    LET procs == BankerProcesses(d, b)
        st == SafetyLoop(b, procs, BankerResources(d, b),
                  [work |-> b.available, finish |-> {}, safe_sequence |-> << >>,
                   iterations |-> 0])
    IN [is_safe |-> Len(st.safe_sequence) = Len(procs),
        safe_sequence |-> st.safe_sequence,
        final_available |-> st.work,
        iterations |-> st.iterations]

\* ---------------------------------------- BankerAlgorithm.predict_allocation
\* a temporary allocation that forgets self.need
SimulateAllocationOnly(b, p, r, amount) ==
    [b EXCEPT !.allocation[<<p, r>>] = @ + amount,
              !.available[r] = @ - amount]

\* Temporarily allocate
Simulate(b, p, r, amount) ==
    [b EXCEPT !.allocation[<<p, r>>] = @ + amount,
              !.need[<<p, r>>] = @ - amount,
              !.available[r] = @ - amount]

\* a restore that forgets self.available
RestoreWithoutAvailable(b, p, r, old_allocation, old_need, old_available) ==
    [b EXCEPT !.allocation[<<p, r>>] = old_allocation,
              !.need[<<p, r>>] = old_need]

\* Restore original state
Restore(b, p, r, old_allocation, old_need, old_available) ==
    [b EXCEPT !.allocation[<<p, r>>] = old_allocation,
              !.need[<<p, r>>] = old_need,
              !.available[r] = old_available]

\* p and r are any caller-supplied ids; "" stands for an id outside both sets
NeedOf(b, p, r) == IF <<p, r>> \in b.keys THEN b.need[<<p, r>>] ELSE 0
AvailableOf(b, r) == IF r \in ResIds THEN b.available[r] ELSE 0

\* the two checks in the other order
predict_allocation_available_first(d, b, p, r, amount) ==
    IF AvailableOf(b, r) < amount
    THEN [b |-> b, is_safe |-> FALSE, safe_sequence |-> << >>, err |-> "InsufficientAvailable"]
    ELSE IF NeedOf(b, p, r) < amount
    THEN [b |-> b, is_safe |-> FALSE, safe_sequence |-> << >>, err |-> "ExceedsDeclaredNeed"]
    ELSE LET simulated == Simulate(b, p, r, amount)
             checked == check_safe_state(d, simulated)
         IN [b |-> Restore(simulated, p, r, b.allocation[<<p, r>>], b.need[<<p, r>>],
                           b.available[r]),
             is_safe |-> checked.is_safe,
             safe_sequence |-> IF checked.is_safe THEN checked.safe_sequence ELSE << >>,
             err |-> ""]

predict_allocation(d, b, p, r, amount) ==
    IF NeedOf(b, p, r) < amount
    THEN [b |-> b, is_safe |-> FALSE, safe_sequence |-> << >>, err |-> "ExceedsDeclaredNeed"]
    ELSE IF AvailableOf(b, r) < amount
    THEN [b |-> b, is_safe |-> FALSE, safe_sequence |-> << >>, err |-> "InsufficientAvailable"]
    ELSE LET simulated == Simulate(b, p, r, amount)
             checked == check_safe_state(d, simulated)
         IN [b |-> Restore(simulated, p, r, b.allocation[<<p, r>>], b.need[<<p, r>>],
                           b.available[r]),
             is_safe |-> checked.is_safe,
             safe_sequence |-> IF checked.is_safe THEN checked.safe_sequence ELSE << >>,
             err |-> ""]

\* ---------------------------------------- BankerAlgorithm.calculate_risk_score
TotalAllocated(b, p) == SumOver([r \in ResIds |-> b.allocation[<<p, r>>]], ResIds)
TotalNeed(b, p) == SumOver([r \in ResIds |-> b.need[<<p, r>>]], ResIds)
TotalAvailable(b) == SumOver(b.available, ResIds)

Min(a, c) == IF a <= c THEN a ELSE c

\* int(n / d) for d > 0: towards zero
Truncate(n, d) == IF n >= 0 THEN n \div d ELSE -((-n) \div d)

\* risk is the sum of three quotients; it is kept here as one fraction over
\* max_possible * max(total_available, 1) and truncated as int(risk) truncates
\* (the float sum can fall just below an integer the fraction reaches).
calculate_risk_score(d, b, p) ==
    IF ~InSeq(p, BankerProcesses(d, b)) THEN 0
    ELSE LET max_possible == Max(Cardinality(BankerResources(d, b)) * 2, 1)
             total_allocated == TotalAllocated(b, p)
             total_need == TotalNeed(b, p)
             total_available == TotalAvailable(b)
             av == Max(total_available, 1)
             numerator ==
                 total_allocated * 30 * av + total_need * 40 * av
                     + (IF total_available < total_need
                        THEN 30 * max_possible * av
                        ELSE (av - (total_available - total_need)) * 30 * max_possible)
         IN Min(100, Truncate(numerator, max_possible * av))

\* ------------------------------------------ DeadlockDetector.predict_deadlock
predict_deadlock(d, b) ==
    IF Len(d.processes) = 0 \/ Cardinality(d.resources) = 0
    THEN [is_safe |-> TRUE, safe_sequence |-> << >>]
    ELSE LET state == check_safe_state(d, b)
         IN [is_safe |-> state.is_safe,
             safe_sequence |-> IF state.is_safe THEN state.safe_sequence ELSE << >>]

\* ------------------------------------------- RecoveryModule.execute_action
\* process_id as it comes out of the request's JSON: a str or an int
PyStr(text) == [kind |-> "str", text |-> text, value |-> 0]
PyInt(value) == [kind |-> "int", text |-> "", value |-> value]

Digits == <<"0", "1", "2", "3", "4", "5", "6", "7", "8", "9">>

\* str(n) for an int n >= 0
RECURSIVE Decimal(_)
Decimal(n) == IF n < 10 THEN Digits[n + 1] ELSE Decimal(n \div 10) \o Digits[(n % 10) + 1]

\* str(process_id)
ToStr(v) == IF v.kind = "str" THEN v.text ELSE Decimal(v.value)

\* isinstance(process_id, int) and process_id < 100
ManualPidLimit == 100

IsManualMode(v) == v.kind = "str" \/ v.value < ManualPidLimit

\* the actions the psutil branch knows
OSActions == {"terminate", "suspend", "resume"}

\* With the detector the route passes, a manual-mode id goes to remove_process
\* as a string, whatever the action; any other id goes to psutil, which does
\* not touch the detector and whose outcome os_success is the operating
\* system's.
execute_action(action, d, b, v, os_success) ==
    IF IsManualMode(v)
    THEN remove_process(d, b, ToStr(v))
    ELSE [d |-> d, b |-> b, ret |-> action \in OSActions /\ os_success]

\* ------------------------------- RecoveryModule.generate_recovery_options
\* what follows the first character of an id
IdTails == {"", "1", "2", "7"}

\* node.startswith(prefix)
StartsWith(node, prefix) == \E tail \in IdTails : node = prefix \o tail

\* _calculate_impact, in two-hundredths so that impact_score * 0.5 is exact
calculate_impact(process) ==
    200 * (IF process.type = "critical" THEN 100
           ELSE IF process.type = "system" THEN 50
           ELSE 10)
        + 100 * process.memory_percent + 60 * process.cpu_percent + 100 * process.num_threads

NewOption(action, process, impact_score) ==
    [action |-> action, process_id |-> process.pid, process_type |-> process.type,
     impact_score |-> impact_score, is_recommended |-> FALSE]

\* the options appended for one entry of processes
OptionsOf(process, process_ids_in_cycle) ==
    IF ~InSeq(process.pid, process_ids_in_cycle)
    THEN << >>
    ELSE <<NewOption("terminate", process, calculate_impact(process))>>
         \o (IF process.type # "critical"
             THEN <<NewOption("suspend", process, calculate_impact(process) \div 2)>>
             ELSE << >>)

RECURSIVE AllOptions(_, _)
AllOptions(processes, process_ids_in_cycle) ==
    IF processes = << >> THEN << >>
    ELSE AllOptions(SubSeq(processes, 1, Len(processes) - 1), process_ids_in_cycle)
         \o OptionsOf(processes[Len(processes)], process_ids_in_cycle)

\* list.sort(key = impact_score) is stable
RECURSIVE InsertByImpact(_, _)
InsertByImpact(options, x) ==
    IF options = << >> THEN <<x>>
    ELSE IF options[Len(options)].impact_score <= x.impact_score THEN Append(options, x)
    ELSE Append(InsertByImpact(SubSeq(options, 1, Len(options) - 1), x), options[Len(options)])

RECURSIVE SortByImpact(_)
SortByImpact(options) ==
    IF options = << >> THEN << >>
    ELSE InsertByImpact(SortByImpact(SubSeq(options, 1, Len(options) - 1)), options[Len(options)])

CycleProcessIds(deadlock_cycle) == SelectSeq(deadlock_cycle, LAMBDA node : StartsWith(node, "P"))

generate_recovery_options(deadlock_cycle, processes) ==
    LET options == SortByImpact(AllOptions(processes, CycleProcessIds(deadlock_cycle)))
    IN IF options # << >> THEN [options EXCEPT ![1].is_recommended = TRUE] ELSE options

\* --------------------------------------------- app.detect_deadlock_manual
process_details(d, deadlock_processes) ==
    LET found == SelectSeq(deadlock_processes, LAMBDA process_id : InSeq(process_id, d.processes))
    IN [i \in 1 .. Len(found) |->
           [id |-> found[i], pid |-> found[i], type |-> "user",
            cpu_percent |-> 0, memory_percent |-> 0, num_threads |-> 1]]

detect_deadlock_manual(d, order) ==
    LET result == detect_deadlock(d, order)
    IN [deadlock_detected |-> result.deadlock_detected,
        deadlock_cycle |-> result.deadlock_cycle,
        deadlock_processes |-> result.deadlock_processes,
        recovery_options |->
            IF result.deadlock_detected
            THEN generate_recovery_options(result.deadlock_cycle,
                                           process_details(d, result.deadlock_processes))
            ELSE << >>]

\* ===================================================== sequential handlers
\* One action per route of app.py, each the whole handler, called one at a
\* time on the module-level detector.  A mutating route leaves its return
\* value in `last`, a query its whole answer.
Idle == [t \in Threads |-> "idle"]
NoLocal == [pid |-> "", rid |-> "", ret |-> FALSE, seq |-> << >>,
            old_allocation |-> 0, old_need |-> 0, old_available |-> 0]
NoLocals == [t \in Threads |-> NoLocal]

Init ==
    /\ detector = DetectorNew
    /\ banker = BankerNew
    /\ last = NoCall
    /\ irregular = 0
    /\ pc = Idle
    /\ local = NoLocals

\* the bounds on what a run may grow
WithinBounds(d, n) ==
    /\ BagCardinality(d.edges) <= (IF n = 0 THEN MaxEdges ELSE MaxIrregularEdges)
    /\ \A q \in GraphIds : Len(d.allocation[q]) <= MaxHeld /\ Len(d.request[q]) <= MaxRequests

MayBeIrregular ==
    /\ irregular < MaxIrregular
    /\ BagCardinality(detector.edges) <= MaxIrregularEdges

\* POST /api/manual/reset
Reset ==
    /\ MayBeIrregular
    /\ LET out == reset(detector, banker) IN
        /\ detector' = out.d
        /\ banker' = out.b
    /\ last' = Call("reset", "", "", 0, TRUE, << >>, << >>, "")
    /\ irregular' = irregular + 1
    /\ UNCHANGED <<pc, local>>

\* POST /api/manual/add_process with an id that is not registered
AddProcess ==
    \E p \in ProcIds \ Range(detector.processes) :
        /\ LET out == add_process(detector, banker, p) IN
            /\ detector' = out.d
            /\ banker' = out.b
        /\ last' = Call("add_process", "", "", 0, TRUE, << >>, << >>, "")
        /\ UNCHANGED <<irregular, pc, local>>

\* POST /api/manual/add_process with an id that is registered
ReAddProcess ==
    \E p \in Range(detector.processes) :
        /\ MayBeIrregular
        /\ LET out == add_process(detector, banker, p) IN
            /\ detector' = out.d
            /\ banker' = out.b
        /\ last' = Call("add_process", "", "", 0, TRUE, << >>, << >>, "")
        /\ irregular' = irregular + 1
        /\ UNCHANGED <<pc, local>>

\* POST /api/manual/add_resource with an id that is not registered
AddResource ==
    \E r \in ResIds \ detector.resources, n \in InstanceChoices :
        /\ LET out == add_resource(detector, banker, r, n) IN
            /\ detector' = out.d
            /\ banker' = out.b
        /\ last' = Call("add_resource", "", "", 0, TRUE, << >>, << >>, "")
        /\ UNCHANGED <<irregular, pc, local>>

\* POST /api/manual/add_resource with an id that is registered
ReAddResource ==
    \E r \in detector.resources, n \in InstanceChoices :
        /\ MayBeIrregular
        /\ LET out == add_resource(detector, banker, r, n) IN
            /\ detector' = out.d
            /\ banker' = out.b
        /\ last' = Call("add_resource", "", "", 0, TRUE, << >>, << >>, "")
        /\ irregular' = irregular + 1
        /\ UNCHANGED <<pc, local>>

\* POST /api/manual/add_resource with an instance count below 1
AddResourceInvalid ==
    \E r \in ResIds \ detector.resources, n \in InvalidInstanceChoices :
        /\ MayBeIrregular
        /\ LET out == add_resource(detector, banker, r, n) IN
            /\ detector' = out.d
            /\ banker' = out.b
        /\ last' = Call("add_resource", "", "", 0, TRUE, << >>, << >>, "")
        /\ irregular' = irregular + 1
        /\ UNCHANGED <<pc, local>>

\* POST /api/manual/allocate
Allocate ==
    \E p \in ProcIds, r \in ResIds :
        LET out == allocate_resource(detector, banker, p, r) IN
            /\ WithinBounds(out.d, irregular)
            /\ detector' = out.d
            /\ banker' = out.b
            /\ last' = Call("allocate", "", "", 0, out.ret, << >>, << >>, "")
            /\ UNCHANGED <<irregular, pc, local>>

\* POST /api/manual/request
Request ==
    \E p \in ProcIds, r \in ResIds :
        LET out == request_resource(detector, banker, p, r) IN
            /\ WithinBounds(out.d, irregular)
            /\ detector' = out.d
            /\ banker' = out.b
            /\ last' = Call("request", "", "", 0, out.ret, << >>, << >>, "")
            /\ UNCHANGED <<irregular, pc, local>>

\* remove_process, as POST /api/recovery/execute reaches it
RemoveProcess ==
    \E p \in ProcIds :
        LET out == remove_process(detector, banker, p) IN
            /\ detector' = out.d
            /\ banker' = out.b
            /\ last' = Call("remove_process", "", "", 0, out.ret, << >>, << >>, "")
            /\ UNCHANGED <<irregular, pc, local>>

\* GET /api/manual/detect; the order in which the set all_nodes is iterated is
\* not fixed by the code
DetectDeadlock ==
    \E order \in Orders(AllNodes(detector)) :
        LET out == detect_deadlock(detector, order) IN
            /\ last' = Call("detect", "", "", 0, out.deadlock_detected, out.deadlock_cycle,
                            out.deadlock_processes, "")
            /\ UNCHANGED <<detector, banker, irregular, pc, local>>

\* GET /api/manual/predict
PredictDeadlock ==
    LET out == predict_deadlock(detector, banker) IN
        /\ last' = Call("predict_deadlock", "", "", 0, out.is_safe, out.safe_sequence, << >>, "")
        /\ UNCHANGED <<detector, banker, irregular, pc, local>>

\* POST /api/manual/predict_allocation
PredictAllocation ==
    \E p \in ProcIds, r \in ResIds :
        LET out == predict_allocation(detector, banker, p, r, 1) IN
            /\ banker' = out.b
            /\ last' = Call("predict_allocation", p, r, 0, out.is_safe, out.safe_sequence,
                            << >>, out.err)
            /\ UNCHANGED <<detector, irregular, pc, local>>

\* callers that register each id once and never reset
Next ==
    \/ AddProcess
    \/ AddResource
    \/ Allocate
    \/ Request
    \/ RemoveProcess
    \/ DetectDeadlock
    \/ PredictDeadlock
    \/ PredictAllocation

Spec == Init /\ [][Next]_vars

\* any caller
NextAny ==
    \/ Next
    \/ ReAddProcess
    \/ ReAddResource
    \/ AddResourceInvalid
    \/ Reset

SpecAny == Init /\ [][NextAny]_vars

\* --------------------------------------------------------- recovery callers
\* the ids these callers register: one that starts with P and a numeral
RecoveryIds == {"P1", "7"}

\* the process ids POST /api/recovery/execute is called with: ids of the graph
\* as strings, and the pids of operating-system processes as ints
ExecuteIds == {PyStr(p) : p \in RecoveryIds} \cup {PyInt(7), PyInt(4242)}

\* the actions POST /api/recovery/execute is called with
RecoveryActions == {"terminate", "suspend"}

\* POST /api/manual/add_process with any id that is not registered
AddGraphProcess ==
    \E p \in RecoveryIds \ Range(detector.processes) :
        /\ LET out == add_process(detector, banker, p) IN
            /\ detector' = out.d
            /\ banker' = out.b
        /\ last' = Call("add_process", "", "", 0, TRUE, << >>, << >>, "")
        /\ UNCHANGED <<irregular, pc, local>>

\* POST /api/manual/allocate
AllocateGraph ==
    \E p \in RecoveryIds, r \in ResIds :
        LET out == allocate_resource(detector, banker, p, r) IN
            /\ WithinBounds(out.d, irregular)
            /\ detector' = out.d
            /\ banker' = out.b
            /\ last' = Call("allocate", "", "", 0, out.ret, << >>, << >>, "")
            /\ UNCHANGED <<irregular, pc, local>>

\* POST /api/manual/request
RequestGraph ==
    \E p \in RecoveryIds, r \in ResIds :
        LET out == request_resource(detector, banker, p, r) IN
            /\ WithinBounds(out.d, irregular)
            /\ detector' = out.d
            /\ banker' = out.b
            /\ last' = Call("request", "", "", 0, out.ret, << >>, << >>, "")
            /\ UNCHANGED <<irregular, pc, local>>

\* the response of GET /api/manual/detect: the detector's result and the
\* recovery options the route adds to it
DetectResponse(out) ==
    [recovery_options |-> out.recovery_options]
        @@ Call("detect", "", "", 0, out.deadlock_detected, out.deadlock_cycle,
                out.deadlock_processes, "")

\* GET /api/manual/detect
DetectManual ==
    \E order \in Orders(AllNodes(detector)) :
        /\ last' = DetectResponse(detect_deadlock_manual(detector, order))
        /\ UNCHANGED <<detector, banker, irregular, pc, local>>

\* POST /api/recovery/execute
ExecuteAction(action, v) ==
    \E os_success \in BOOLEAN :
        LET out == execute_action(action, detector, banker, v, os_success) IN
            /\ detector' = out.d
            /\ banker' = out.b
            /\ last' = Call("execute_" \o action, "", "", 0, out.ret, << >>, << >>, "")
            /\ UNCHANGED <<irregular, pc, local>>

ExecuteRecovery == \E action \in RecoveryActions, v \in ExecuteIds : ExecuteAction(action, v)

NextRecovery ==
    \/ AddGraphProcess
    \/ AddResource
    \/ AllocateGraph
    \/ RequestGraph
    \/ DetectManual
    \/ ExecuteRecovery

SpecRecovery == Init /\ [][NextRecovery]_vars

\* ------------------------------------------------------------ recovery loop
\* One client builds a graph and then recovers: it calls GET /api/manual/detect
\* and, while a deadlock is reported, POST /api/recovery/execute with terminate
\* and a process of deadlock_processes.  pc[Client] is where the client is.
Client == "t1"

At(position) == pc[Client] = position
Goto(position) == pc' = [pc EXCEPT ![Client] = position]

Building ==
    /\ At("idle")
    /\ \/ AddGraphProcess
       \/ AddResource
       \/ AllocateGraph
       \/ RequestGraph

RecoveryBegin ==
    /\ At("idle")
    /\ Goto("recovery_detect")
    /\ UNCHANGED <<detector, banker, last, irregular, local>>

\* what GET /api/manual/detect can answer, over the orders in which the set
\* all_nodes can be iterated
DetectResponses(d) == {DetectResponse(detect_deadlock_manual(d, order)) : order \in Orders(AllNodes(d))}

RecoveryDetect ==
    /\ At("recovery_detect")
    /\ \E response \in DetectResponses(detector) :
        /\ last' = response
        /\ Goto(IF response.ret THEN "recovery_execute" ELSE "recovery_done")
    /\ UNCHANGED <<detector, banker, irregular, local>>

RecoveryExecute ==
    /\ At("recovery_execute")
    /\ \E p \in Range(last.procs) :
        LET out == execute_action("terminate", detector, banker, PyStr(p), FALSE) IN
            /\ detector' = out.d
            /\ banker' = out.b
            /\ last' = Call("execute_terminate", "", "", 0, out.ret, << >>, << >>, "")
    /\ Goto("recovery_detect")
    /\ UNCHANGED <<irregular, local>>

NextRecoveryLoop ==
    \/ Building
    \/ RecoveryBegin
    \/ RecoveryDetect
    \/ RecoveryExecute

\* the client leaves recovery_detect: RecoveryDetect is the only step that
\* does, and it is enabled wherever the client is at recovery_detect, Orders
\* being never empty
DetectAnswered ==
    /\ At("recovery_detect")
    /\ pc' \in {[pc EXCEPT ![Client] = position] :
                    position \in {"recovery_execute", "recovery_done"}}

\* each request the client sends is answered, and the client sends the next
SpecRecoveryLoop ==
    /\ Init
    /\ [][NextRecoveryLoop]_vars
    /\ WF_pc(DetectAnswered)
    /\ WF_vars(RecoveryExecute)

\* ====================================================== concurrent handlers
\* app.run serves each request on its own thread and no handler takes a lock,
\* so a thread can be switched out between two statements of a handler.  Each
\* action below is a run of consecutive statements of one handler on one
\* thread.
\* the handler returns: its answer goes to the client and its locals are gone
Returned(ret, seq) == NoLocal

InFlight(p) == Cardinality({t \in Threads : pc[t] \in {"alloc_commit"} /\ local[t].pid = p})
Committing == Cardinality({t \in Threads : pc[t] \in {"alloc_commit", "alloc_banker", "alloc_edge"}})

\* allocate_resource: the two guards
AllocateBegin(t) ==
    \E p \in ProcIds, r \in ResIds :
        /\ pc[t] = "idle"
        /\ Len(detector.allocation[p]) + InFlight(p) < MaxHeld
        /\ BagCardinality(detector.edges) + Committing < MaxEdges
        /\ IF ~InSeq(p, detector.processes) \/ r \notin detector.resources
           THEN pc' = pc /\ local' = [local EXCEPT ![t] = Returned(FALSE, << >>)]
           ELSE IF HasInstance(detector, r)
           THEN /\ pc' = [pc EXCEPT ![t] = "alloc_commit"]
                /\ local' = [local EXCEPT ![t] = [NoLocal EXCEPT !.pid = p, !.rid = r]]
           ELSE pc' = pc /\ local' = [local EXCEPT ![t] = Returned(FALSE, << >>)]
        /\ UNCHANGED <<detector, banker, last, irregular>>

\* allocate_resource: the two appends and available -= 1
AllocateCommit(t) ==
    /\ pc[t] = "alloc_commit"
    /\ detector' = [detector EXCEPT !.allocation[local[t].pid] = Append(@, local[t].rid),
                                    !.available[local[t].rid] = @ - 1]
    /\ pc' = [pc EXCEPT ![t] = "alloc_banker"]
    /\ UNCHANGED <<banker, last, irregular, local>>

\* allocate_resource: self.banker.update_allocation(process_id, resource_id, 1)
AllocateBanker(t) ==
    /\ pc[t] = "alloc_banker"
    /\ banker' = update_allocation(banker, local[t].pid, local[t].rid, 1)
    /\ pc' = [pc EXCEPT ![t] = "alloc_edge"]
    /\ UNCHANGED <<detector, last, irregular, local>>

\* allocate_resource: the edge and return True
AllocateEdge(t) ==
    /\ pc[t] = "alloc_edge"
    /\ detector' = [detector EXCEPT
                       !.edges = @ (+) SetToBag({<<local[t].rid, local[t].pid, "allocation">>})]
    /\ pc' = [pc EXCEPT ![t] = "idle"]
    /\ local' = [local EXCEPT ![t] = Returned(TRUE, << >>)]
    /\ UNCHANGED <<banker, last, irregular>>

\* predict_allocation: the two checks, the saved values, the temporary allocation
PredictBegin(t) ==
    \E p \in ProcIds, r \in ResIds :
        /\ pc[t] = "idle"
        /\ IF NeedOf(banker, p, r) < 1 \/ AvailableOf(banker, r) < 1
           THEN /\ pc' = pc
                /\ local' = [local EXCEPT ![t] = Returned(FALSE, << >>)]
                /\ banker' = banker
           ELSE /\ pc' = [pc EXCEPT ![t] = "pred_check"]
                /\ local' = [local EXCEPT ![t] =
                                [NoLocal EXCEPT !.pid = p, !.rid = r,
                                                !.old_allocation = banker.allocation[<<p, r>>],
                                                !.old_need = banker.need[<<p, r>>],
                                                !.old_available = banker.available[r]]]
                /\ banker' = Simulate(banker, p, r, 1)
        /\ UNCHANGED <<detector, last, irregular>>

\* predict_allocation: is_safe, safe_sequence, details = self.check_safe_state()
PredictCheck(t) ==
    /\ pc[t] = "pred_check"
    /\ LET checked == check_safe_state(detector, banker) IN
        local' = [local EXCEPT ![t].ret = checked.is_safe,
                               ![t].seq = IF checked.is_safe THEN checked.safe_sequence
                                          ELSE << >>]
    /\ pc' = [pc EXCEPT ![t] = "pred_restore"]
    /\ UNCHANGED <<detector, banker, last, irregular>>

\* predict_allocation: the three restoring assignments and the return
PredictRestore(t) ==
    /\ pc[t] = "pred_restore"
    /\ banker' = Restore(banker, local[t].pid, local[t].rid, local[t].old_allocation,
                         local[t].old_need, local[t].old_available)
    /\ pc' = [pc EXCEPT ![t] = "idle"]
    /\ local' = [local EXCEPT ![t] = Returned(local[t].ret, local[t].seq)]
    /\ UNCHANGED <<detector, last, irregular>>

\* GET /api/manual/predict arrives on thread t
QueryBegin(t) ==
    /\ pc[t] = "idle"
    /\ pc' = [pc EXCEPT ![t] = "query"]
    /\ local' = [local EXCEPT ![t] = NoLocal]
    /\ UNCHANGED <<detector, banker, last, irregular>>

\* predict_deadlock reads the banker's matrices
QueryRead(t) ==
    /\ pc[t] = "query"
    /\ LET out == predict_deadlock(detector, banker) IN
        local' = [local EXCEPT ![t] = Returned(out.is_safe, out.safe_sequence)]
    /\ pc' = [pc EXCEPT ![t] = "idle"]
    /\ UNCHANGED <<detector, banker, last, irregular>>

\* The detector the threads share: one resource registered with some instance
\* count, then every process id in some order, by add_resource and add_process.
RECURSIVE AddProcesses(_, _, _)
AddProcesses(st, order, i) ==
    IF i > Len(order) THEN st
    ELSE LET out == add_process(st.d, st.b, order[i])
         IN AddProcesses([d |-> out.d, b |-> out.b], order, i + 1)

InitConc ==
    \E r \in ResIds, n \in InstanceChoices, order \in Orders(ProcIds) :
        LET first == add_resource(DetectorNew, BankerNew, r, n)
            st == AddProcesses([d |-> first.d, b |-> first.b], order, 1)
        IN /\ detector = st.d
           /\ banker = st.b
           /\ last = NoCall
           /\ irregular = 0
           /\ pc = Idle
           /\ local = NoLocals

AllocateStep == \E t \in Threads : AllocateBegin(t) \/ AllocateCommit(t)
BankerStep == \E t \in Threads : AllocateBanker(t) \/ AllocateEdge(t)
PredictStep == \E t \in Threads : PredictBegin(t) \/ PredictCheck(t) \/ PredictRestore(t)
QueryStep == \E t \in Threads : QueryBegin(t) \/ QueryRead(t)

NextConc ==
    \/ AllocateStep
    \/ BankerStep
    \/ PredictStep
    \/ QueryStep

SpecConc == InitConc /\ [][NextConc]_vars

\* ================================================================ properties
\* ------------------------------------------------------------------------ C1
\* units of r in the allocation lists of the registered processes
Held(d, r) ==
    SumOver([p \in Range(d.processes) |-> Count(d.allocation[p], r)], Range(d.processes))

\* C1: for every registered resource r, available[r] plus the number of
\* occurrences of r in the allocation lists of all registered processes equals
\* the instance count of r, after any sequence of add_process, add_resource,
\* allocate, request, remove_process and reset.
ResourceConservation ==
    \A r \in detector.resources :
        detector.available[r] + Held(detector, r) = detector.instances[r]

\* ------------------------------------------------------------------------ C2
SnapshotAgrees(d, b) ==
    \A p \in Range(d.processes), r \in d.resources :
        /\ b.allocation[<<p, r>>] = Count(d.allocation[p], r)
        /\ b.available[r] = d.available[r]

\* C2: whenever a safety query (predict_deadlock, predict_allocation) has run,
\* the Banker snapshot it read agrees with the graph: allocation[p][r] is the
\* number of units of r in p's allocation list and available[r] is the graph's
\* available count, for every registered p and r.
SnapshotFresh ==
    last.op \in {"predict_deadlock", "predict_allocation"} => SnapshotAgrees(detector, banker)

\* ------------------------------------------------------------------------ C3
\* the directed graph: process -> each resource it requests, resource -> each
\* process holding it
GraphEdges(d) ==
    {e \in Range(d.processes) \X d.resources : InSeq(e[2], d.request[e[1]])}
        \cup {e \in d.resources \X Range(d.processes) : InSeq(e[1], d.allocation[e[2]])}

Successors(E, S) == {e[2] : e \in {x \in E : x[1] \in S}}

RECURSIVE ReachableFrom(_, _)
ReachableFrom(E, S) ==
    LET T == S \cup Successors(E, S) IN IF T = S THEN S ELSE ReachableFrom(E, T)

HasCycle(d) ==
    \E n \in AllNodes(d) : n \in ReachableFrom(GraphEdges(d), Successors(GraphEdges(d), {n}))

\* P1 holds R1 and requests R2, P2 holds R2 and requests R1
Scenario1(d) ==
    /\ Range(d.processes) = {"P1", "P2"} /\ d.resources = {"R1", "R2"}
    /\ d.allocation["P1"] = <<"R1">> /\ d.request["P1"] = <<"R2">>
    /\ d.allocation["P2"] = <<"R2">> /\ d.request["P2"] = <<"R1">>

\* the same without P2's request
Scenario2(d) ==
    /\ Range(d.processes) = {"P1", "P2"} /\ d.resources = {"R1", "R2"}
    /\ d.allocation["P1"] = <<"R1">> /\ d.request["P1"] = <<"R2">>
    /\ d.allocation["P2"] = <<"R2">> /\ d.request["P2"] = << >>

\* C3: detect_deadlock returns deadlock_detected = true if and only if the
\* directed graph contains a directed cycle; when there is none the cycle and
\* the process list it returns are empty; Scenario 1 gives true and Scenario 2
\* gives false.
DetectSoundAndComplete ==
    last.op = "detect" =>
        /\ last.ret <=> HasCycle(detector)
        /\ ~HasCycle(detector) => last.seq = << >> /\ last.procs = << >>
        /\ Scenario1(detector) => last.ret
        /\ Scenario2(detector) => ~last.ret

DetectedScenario1 == last.op = "detect" /\ Scenario1(detector) /\ last.ret

\* ------------------------------------------------------------------------ C4
ClosedWalk(d, cycle) ==
    /\ Len(cycle) >= 2
    /\ cycle[1] = cycle[Len(cycle)]
    /\ \A i \in 1 .. (Len(cycle) - 1) : <<cycle[i], cycle[i + 1]>> \in GraphEdges(d)
    /\ \A i, j \in 1 .. (Len(cycle) - 1) : i # j => cycle[i] # cycle[j]

\* C4: when detect_deadlock reports a deadlock, the cycle it returns is a closed
\* walk of the graph: first and last node equal, every consecutive pair an edge,
\* no node repeated except the closing one.
CycleIsClosedWalk ==
    last.op = "detect" /\ last.ret => ClosedWalk(detector, last.seq)

\* a reported cycle that does not pass through every node of the graph
DetectedProperCycle ==
    /\ last.op = "detect" /\ last.ret
    /\ Range(last.seq) # AllNodes(detector)
    /\ Len(last.seq) >= 3

\* ------------------------------------------------------------------------ C5
\* C5: a call of detect_deadlock on the unchanged graph returns the identical
\* cycle (same node sequence, same start node) whatever the order in which the
\* set all_nodes is iterated.
DetectDeterministic ==
    last.op = "detect" =>
        \A order \in Orders(AllNodes(detector)) :
            detect_deadlock(detector, order).deadlock_cycle = last.seq

\* ------------------------------------------------------------------------ C6
\* order is a safe sequence of the snapshot: each process's need is covered by
\* available plus the allocations of the processes before it
SafeOrder(b, res, order) ==
    \A i \in 1 .. Len(order), r \in res :
        b.need[<<order[i], r>>] <=
            b.available[r] + SumOver([j \in 1 .. (i - 1) |-> b.allocation[<<order[j], r>>]],
                                     1 .. (i - 1))

ExistsSafeOrder(d, b) ==
    \E order \in Orders(Range(BankerProcesses(d, b))) : SafeOrder(b, BankerResources(d, b), order)

SafetyExact(d, b) ==
    LET out == check_safe_state(d, b) IN
        /\ out.is_safe <=> Range(out.safe_sequence) = Range(BankerProcesses(d, b))
        /\ out.is_safe <=> ExistsSafeOrder(d, b)
        /\ out.is_safe => SafeOrder(b, BankerResources(d, b), out.safe_sequence)

\* C6: check_safe_state returns is_safe = true exactly when every process was
\* marked finished, and that is the case if and only if some ordering of all
\* processes is a safe sequence; this holds of the snapshot as it is and of the
\* snapshot with the unit predict_allocation simulates.
CheckSafetyExact ==
    /\ SafetyExact(detector, banker)
    /\ \A p \in ProcIds, r \in ResIds :
        NeedOf(banker, p, r) >= 1 /\ AvailableOf(banker, r) >= 1 =>
            SafetyExact(detector, Simulate(banker, p, r, 1))

\* a safe snapshot whose first process cannot run first, and an unsafe one one
\* allocation away
SafeAfterSkipping ==
    LET out == check_safe_state(detector, banker) IN
        /\ Len(BankerProcesses(detector, banker)) = 2
        /\ out.is_safe
        /\ out.safe_sequence # BankerProcesses(detector, banker)
        /\ \E p \in ProcIds, r \in ResIds :
            /\ NeedOf(banker, p, r) >= 1 /\ AvailableOf(banker, r) >= 1
            /\ ~check_safe_state(detector, Simulate(banker, p, r, 1)).is_safe

\* ------------------------------------------------------------------------ C7
\* C7: a call of predict_allocation, whatever its verdict or error, leaves the
\* snapshot's allocation, need and available and the graph's lists, edges and
\* available counts as they were, so check_safe_state returns the same after
\* it as before it.
PredictAllocationPure ==
    [][PredictAllocation =>
          /\ detector' = detector
          /\ banker' = banker
          /\ check_safe_state(detector', banker') = check_safe_state(detector, banker)]_vars

\* a call that went through the temporary allocation and found it unsafe
PredictedUnsafe ==
    last.op = "predict_allocation" /\ last.err = "" /\ ~last.ret

\* ------------------------------------------------------------------------ C8
InPredict(t) == pc[t] \in {"pred_check", "pred_restore"}

\* no thread is about to read the snapshot (a safety query, the update of an
\* allocate, the checks of another predict_allocation being past) while it holds
\* the unit another thread simulates
SimulationInvisible ==
    \A t, u \in Threads :
        t # u /\ InPredict(u) => pc[t] \notin {"query", "alloc_banker"}

\* a thread about to restore finds the three values as it left them, so that
\* what it writes back undoes its own temporary allocation and nothing else
RestoreOverwritesNothing ==
    \A t \in Threads :
        pc[t] = "pred_restore" =>
            /\ banker.allocation[<<local[t].pid, local[t].rid>>] = local[t].old_allocation + 1
            /\ banker.need[<<local[t].pid, local[t].rid>>] = local[t].old_need - 1
            /\ banker.available[local[t].rid] = local[t].old_available - 1

\* C8: the unit predict_allocation simulates is never visible to a safety query
\* or an allocate running concurrently on the same detector, and the restore of
\* predict_allocation never overwrites an update made by a concurrent allocate.
SimulationIsolated == SimulationInvisible /\ RestoreOverwritesNothing

\* ------------------------------------------------------------------------ C9
\* C9: under any interleaving of concurrent allocate calls, two calls never both
\* take the last available instance of a resource, available[r] is never
\* negative, and resource conservation holds once all calls have returned.
AllocateSerialized ==
    /\ \A r \in detector.resources : detector.available[r] >= 0
    /\ (\A t \in Threads : pc[t] = "idle") => ResourceConservation

\* ----------------------------------------------------------------------- C10
\* C10: add_process with an id that is already registered is rejected and
\* leaves the process record, its allocation list, its request list, the edges
\* and every available count unchanged.
AddProcessRejectsDuplicate ==
    [][ReAddProcess => (~last'.ret /\ detector' = detector)]_vars

\* ----------------------------------------------------------------------- C11
\* C11: add_resource with an id that is already registered is rejected and
\* leaves the resource's instance count and available count unchanged.
AddResourceRejectsDuplicate ==
    [][ReAddResource =>
          /\ ~last'.ret
          /\ detector'.instances = detector.instances
          /\ detector'.available = detector.available]_vars

\* ----------------------------------------------------------------------- C12
\* C12: add_resource with an instance count below 1 registers nothing, so every
\* registered resource has instances >= 1 and 0 <= available <= instances.
InstanceCountsValid ==
    \A r \in detector.resources :
        /\ detector.instances[r] >= 1
        /\ 0 <= detector.available[r]
        /\ detector.available[r] <= detector.instances[r]

\* ----------------------------------------------------------------------- C13
Registered(d, p, r) == InSeq(p, d.processes) /\ r \in d.resources

\* the step is allocate_resource(p, r) by the route
IsAllocate(p, r) ==
    LET out == allocate_resource(detector, banker, p, r) IN
        /\ last'.op = "allocate" /\ last'.ret = out.ret
        /\ detector' = out.d /\ banker' = out.b

\* C13: allocate_resource(p, r) with both ids registered and available[r] > 0
\* succeeds, decrements available[r] by exactly 1, appends exactly one r to p's
\* allocation list and exactly one (r, p, allocation) edge, and leaves every
\* other available count, every other process's lists and all request lists
\* unchanged.
AllocateFrame ==
    [][\A p \in ProcIds, r \in ResIds :
          IsAllocate(p, r) /\ Registered(detector, p, r) /\ detector.available[r] > 0 =>
              /\ last'.ret
              /\ detector'.available = [detector.available EXCEPT ![r] = @ - 1]
              /\ detector'.allocation = [detector.allocation EXCEPT ![p] = Append(@, r)]
              /\ detector'.edges = detector.edges (+) SetToBag({<<r, p, "allocation">>})
              /\ detector'.request = detector.request
              /\ detector'.processes = detector.processes
              /\ detector'.resources = detector.resources
              /\ detector'.instances = detector.instances]_vars

\* an allocation succeeded while another process holds a unit and one requests
AllocatedAmongOthers ==
    /\ last.op = "allocate" /\ last.ret
    /\ \A p \in ProcIds : Len(detector.allocation[p]) = 1
    /\ \E p \in ProcIds : Len(detector.request[p]) = 1

\* ----------------------------------------------------------------------- C14
\* C14: allocate_resource fails when the process id or the resource id is not
\* registered and when available[r] = 0; whenever it fails, the graph's lists,
\* edges and available counts and the Banker snapshot are unchanged.
AllocateFailureFrame ==
    [][Allocate =>
          /\ ~last'.ret => detector' = detector /\ banker' = banker
          /\ \A p \in ProcIds, r \in ResIds :
                IsAllocate(p, r) /\ (~Registered(detector, p, r) \/ detector.available[r] = 0)
                    => ~last'.ret]_vars

\* an allocation failed with every id registered: no instance was available
AllocateFoundNoInstance ==
    /\ last.op = "allocate" /\ ~last.ret
    /\ Range(detector.processes) = ProcIds /\ detector.resources = ResIds
    /\ \A r \in ResIds : detector.available[r] = 0

\* ----------------------------------------------------------------------- C15
\* the step is request_resource(p, r) by the route
IsRequest(p, r) ==
    LET out == request_resource(detector, banker, p, r) IN
        /\ last'.op = "request" /\ last'.ret = out.ret
        /\ detector' = out.d /\ banker' = out.b

IsRemove(p) ==
    LET out == remove_process(detector, banker, p) IN
        /\ last'.op = "remove_process" /\ last'.ret = out.ret
        /\ detector' = out.d /\ banker' = out.b

Incident(e, p) == e[1] = p \/ e[2] = p

\* C16: remove_process(p) on a registered process adds back to each resource
\* exactly the number of units p held, deletes the process record and its
\* lists, deletes every edge incident to p and no other edge; afterwards each
\* resource's available count is what it would be had p never allocated
\* anything.
RemoveProcessReleases ==
    [][\A p \in ProcIds :
          IsRemove(p) /\ InSeq(p, detector.processes) =>
              /\ last'.ret
              /\ \A r \in detector.resources :
                    detector'.available[r] = detector.available[r] + Count(detector.allocation[p], r)
              /\ ~InSeq(p, detector'.processes)
              /\ detector'.allocation[p] = << >> /\ detector'.request[p] = << >>
              /\ \A e \in BagToSet(detector.edges) :
                    CopiesIn(e, detector'.edges) =
                        (IF Incident(e, p) THEN 0 ELSE CopiesIn(e, detector.edges))
              /\ \A r \in detector.resources :
                    detector'.available[r] = detector.instances[r] - Held(detector', r)]_vars

\* ----------------------------------------------------------------------- C17
\* C17: remove_process on an id that is not registered, in particular a second
\* remove_process on the same id, fails and leaves processes, available
\* counts, lists and edges unchanged; no unit is released twice.
RemoveProcessIdempotent ==
    [][RemoveProcess =>
          /\ ~last'.ret => detector' = detector /\ banker' = banker
          /\ \A p \in ProcIds :
                IsRemove(p) =>
                    /\ last'.ret <=> InSeq(p, detector.processes)
                    /\ LET again == remove_process(detector', banker', p) IN
                          ~again.ret /\ again.d = detector' /\ again.b = banker']_vars

\* a remove_process failed while a unit was held
RemoveFoundNothing ==
    /\ last.op = "remove_process" /\ ~last.ret
    /\ \E p \in ProcIds : Len(detector.allocation[p]) = 1

\* ----------------------------------------------------------------------- C18
ListEdgeCount(d, e) ==
    IF e[3] = "allocation"
    THEN (IF InSeq(e[2], d.processes) THEN Count(d.allocation[e[2]], e[1]) ELSE 0)
    ELSE (IF InSeq(e[1], d.processes) THEN Count(d.request[e[1]], e[2]) ELSE 0)

AllEdges ==
    {<<r, p, "allocation">> : r \in ResIds, p \in ProcIds}
        \cup {<<p, r, "request">> : p \in ProcIds, r \in ResIds}

\* C18: the edge log is exactly the multiset derived from the lists: one
\* (r, p, allocation) edge per entry r of p's allocation list, one
\* (p, r, request) edge per entry r of p's request list, no edge of an
\* unregistered process.
EdgesMatchLists ==
    \A e \in AllEdges : CopiesIn(e, detector.edges) = ListEdgeCount(detector, e)

\* ----------------------------------------------------------------------- C19
\* C19: for every registered process p and resource r, need[p][r] is
\* max_need[p][r] - allocation[p][r] and at least 0, and max_need[p][r] is the
\* instance count of r.
NeedInvariant ==
    \A p \in Range(detector.processes), r \in detector.resources :
        /\ banker.need[<<p, r>>] = banker.max_need[<<p, r>>] - banker.allocation[<<p, r>>]
        /\ banker.need[<<p, r>>] >= 0
        /\ banker.max_need[<<p, r>>] = detector.instances[r]

\* ----------------------------------------------------------------------- C20
\* C20: predict_allocation(p, r, 1) fails with the need error whenever
\* 1 > need[p][r], also when no instance is available; on this failure the
\* snapshot and the graph are unchanged and an empty order is returned.
PredictAllocationChecksNeedFirst ==
    [][PredictAllocation =>
          /\ last'.err = "ExceedsDeclaredNeed" <=> NeedOf(banker, last'.pid, last'.rid) < 1
          /\ last'.err = "ExceedsDeclaredNeed" =>
                /\ ~last'.ret /\ last'.seq = << >>
                /\ detector' = detector /\ banker' = banker]_vars

\* the need error was returned for registered ids while no instance was
\* available either
NeedErrorBeforeAvailability ==
    /\ last.op = "predict_allocation" /\ last.err = "ExceedsDeclaredNeed"
    /\ Registered(detector, last.pid, last.rid)
    /\ AvailableOf(banker, last.rid) < 1

\* ----------------------------------------------------------------------- C21
\* C21: predict_allocation(p, r, 1) fails, with an error, whenever the graph has
\* no available instance of the registered resource r, so it never returns
\* is_safe = true for an allocation that allocate_resource(p, r) rejects.
PredictRejectsExhausted ==
    /\ last.op = "predict_allocation"
    /\ last.rid \in detector.resources
    /\ detector.available[last.rid] = 0
    => ~last.ret /\ last.err # ""

\* ----------------------------------------------------------------------- C22
PredictPreconditions(b, p, r) == NeedOf(b, p, r) >= 1 /\ AvailableOf(b, r) >= 1

\* P1 alone holds 1 of the 2 instances of R1
Scenario3(d) ==
    /\ d.processes = <<"P1">> /\ d.resources = {"R1"} /\ d.instances["R1"] = 2
    /\ d.allocation["P1"] = <<"R1">>

PredictMatchesAllocate(d, b, p, r) ==
    LET predicted == predict_allocation(d, b, p, r, 1)
        allocated == allocate_resource(d, b, p, r)
        checked == check_safe_state(allocated.d, allocated.b)
    IN /\ predicted.is_safe = checked.is_safe
       /\ predicted.safe_sequence = (IF checked.is_safe THEN checked.safe_sequence ELSE << >>)

\* C22: when its preconditions hold, predict_allocation(p, r, 1) returns
\* exactly the verdict and order that check_safe_state returns on the state
\* after allocate_resource(p, r): safe with the safe sequence, or unsafe with
\* an empty order; for P1 holding 1 of 2 instances of R1 it returns safe with
\* order [P1].
PredictEqualsCheckAfterAllocate ==
    /\ \A p \in ProcIds, r \in ResIds :
          PredictPreconditions(banker, p, r) => PredictMatchesAllocate(detector, banker, p, r)
    /\ Scenario3(detector) =>
          LET predicted == predict_allocation(detector, banker, "P1", "R1", 1) IN
              predicted.is_safe /\ predicted.safe_sequence = <<"P1">>

PredictedScenario3 ==
    /\ Scenario3(detector)
    /\ last.op = "predict_allocation" /\ last.pid = "P1" /\ last.rid = "R1"
    /\ last.ret /\ last.seq = <<"P1">>

\* ----------------------------------------------------------------------- C23
\* C23: check_safe_state ends after at most processCount + 1 rounds; when it
\* reports unsafe no unfinished process can run with the work vector it ended
\* with, so the cap of 2 x processCount rounds is not what stopped it; with no
\* process it reports safe with an empty order.
CheckSafetyTerminates ==
    LET out == check_safe_state(detector, banker)
        procs == BankerProcesses(detector, banker)
    IN /\ out.iterations <= Len(procs) + 1
       /\ ~out.is_safe =>
             \A i \in 1 .. Len(procs) :
                 ~InSeq(procs[i], out.safe_sequence) =>
                     \E r \in BankerResources(detector, banker) :
                         banker.need[<<procs[i], r>>] > out.final_available[r]
       /\ Len(procs) = 0 => out.is_safe /\ out.safe_sequence = << >>

\* two processes, both finished, in two rounds
TwoRoundsSafe ==
    LET out == check_safe_state(detector, banker) IN
        /\ Len(BankerProcesses(detector, banker)) = 2
        /\ out.is_safe /\ out.iterations = 2

\* ----------------------------------------------------------------------- C24
\* C24: one more successful allocate_resource(p, r) never decreases
\* calculate_risk_score(p).
RiskScoreMonotone ==
    [][\A p \in ProcIds, r \in ResIds :
          IsAllocate(p, r) /\ last'.ret =>
              calculate_risk_score(detector', banker', p)
                  >= calculate_risk_score(detector, banker, p)]_vars

\* ----------------------------------------------------------------------- C26
\* work at the turn of order[i]: available plus the allocations of the
\* processes before it
WorkBefore(b, order, i) ==
    [r \in ResIds |->
        b.available[r] + SumOver([j \in 1 .. (i - 1) |-> b.allocation[<<order[j], r>>]],
                                 1 .. (i - 1))]

RunsWith(b, res, work, p) == \A r \in res : b.need[<<p, r>>] <= work[r]

\* C26: the order check_safe_state returns contains each finished process
\* exactly once; each process in it had need <= work for every resource at its
\* turn, work being available plus the allocations of the processes before it;
\* and each is the first unfinished runnable process of the process order at
\* its turn.
SafeSequenceIsGreedy ==
    LET out == check_safe_state(detector, banker)
        procs == BankerProcesses(detector, banker)
        res == BankerResources(detector, banker)
        order == out.safe_sequence
    IN /\ \A i \in 1 .. Len(order) : InSeq(order[i], procs)
       /\ \A i, j \in 1 .. Len(order) : i # j => order[i] # order[j]
       /\ \A i \in 1 .. Len(order) :
             /\ RunsWith(banker, res, WorkBefore(banker, order, i), order[i])
             /\ \A k \in 1 .. (Index(procs, order[i]) - 1) :
                   \/ \E j \in 1 .. (i - 1) : order[j] = procs[k]
                   \/ ~RunsWith(banker, res, WorkBefore(banker, order, i), procs[k])

\* the second process of the dict runs first, the first one after it
SecondRunsFirst ==
    LET out == check_safe_state(detector, banker)
        procs == BankerProcesses(detector, banker)
    IN Len(procs) = 2 /\ out.safe_sequence = <<procs[2], procs[1]>>

\* ----------------------------------------------------------------------- C27
OnCycle(d, n) == n \in ReachableFrom(GraphEdges(d), Successors(GraphEdges(d), {n}))

\* C27: detect_deadlock takes no account of instance counts: it reports a
\* deadlock whenever a registered resource lies on a directed cycle, whether
\* or not that resource still has an instance available.
CycleReportedWhateverCounts ==
    last.op = "detect" =>
        \A r \in detector.resources :
            OnCycle(detector, r) => last.ret /\ ClosedWalk(detector, last.seq)

\* a deadlock is reported over a cycle through a resource with an instance left
ReportedWithInstanceLeft ==
    /\ last.op = "detect" /\ last.ret
    /\ \E i \in 1 .. Len(last.seq) :
        last.seq[i] \in detector.resources /\ detector.available[last.seq[i]] > 0

\* ----------------------------------------------------------------------- C28
\* C28: in any state with exactly one registered process detect_deadlock
\* reports no deadlock.
NoDeadlockOfOneProcess ==
    last.op = "detect" /\ Len(detector.processes) = 1 => ~last.ret

\* ----------------------------------------------------------------------- C29
\* the processes among the nodes of a cycle
ProcessesOn(d, cycle) == {n \in Range(cycle) : InSeq(n, d.processes)}

\* C29: when detect_deadlock reports a deadlock, deadlock_processes lists every
\* process on the cycle exactly once, whichever node the cycle starts at.
DeadlockProcessesOnce ==
    last.op = "detect" /\ last.ret =>
        /\ Range(last.procs) = ProcessesOn(detector, last.seq)
        /\ \A i, j \in 1 .. Len(last.procs) : i # j => last.procs[i] # last.procs[j]

\* ----------------------------------------------------------------------- C30
\* C30: predict_allocation never returns is_safe = true for a process id or a
\* resource id that is not registered in the graph, in particular after
\* remove_process and after reset.
PredictOnlyForRegistered ==
    last.op = "predict_allocation" /\ last.ret => Registered(detector, last.pid, last.rid)

\* ----------------------------------------------------------------------- C25
\* C25: execute_action given the integer pid of an operating-system process
\* never removes a graph process; given a registered graph id it removes
\* exactly that process; and it changes no other graph state than
\* remove_process does.
RecoveryKeepsIdSpacesApart ==
    [][\A action \in RecoveryActions, v \in ExecuteIds :
          ExecuteAction(action, v) =>
              /\ v.kind = "int" => detector' = detector
              /\ v.kind = "str" /\ InSeq(v.text, detector.processes) =>
                    /\ last'.ret
                    /\ detector'.processes = Without(detector.processes, v.text)
              /\ detector'.resources = detector.resources
              /\ detector'.instances = detector.instances
              /\ \A p \in Range(detector'.processes) :
                    /\ detector'.allocation[p] = detector.allocation[p]
                    /\ detector'.request[p] = detector.request[p]]_vars

\* ----------------------------------------------------------------------- C32
\* C32: whenever check_safe_state returns is_safe = true, the final_available
\* it reports equals, for every resource, the resource's instance count: the
\* simulated run has returned every held unit.
SafeRunReturnsEveryUnit ==
    LET out == check_safe_state(detector, banker) IN
        out.is_safe =>
            \A r \in BankerResources(detector, banker) :
                out.final_available[r] = BankerInstances(detector, banker)[r]

\* ----------------------------------------------------------------------- C33
\* the recovery options of a response that are for process p
OptionsFor(options, p) == {i \in 1 .. Len(options) : options[i].process_id = p}

\* C33: for every deadlock GET /api/manual/detect reports, the recovery
\* options hold a terminate option and, the process being of type user, a
\* suspend option for each process on the cycle, whatever its id; and exactly
\* one option is marked recommended, one of lowest impact score.
OptionsForEveryProcess ==
    last.op = "detect" /\ last.ret =>
        LET options == last.recovery_options IN
            /\ \A p \in ProcessesOn(detector, last.seq) :
                  /\ \E i \in OptionsFor(options, p) : options[i].action = "terminate"
                  /\ \E i \in OptionsFor(options, p) : options[i].action = "suspend"
            /\ Cardinality({i \in 1 .. Len(options) : options[i].is_recommended}) = 1
            /\ \A i, j \in 1 .. Len(options) :
                  options[i].is_recommended => options[i].impact_score <= options[j].impact_score

\* ----------------------------------------------------------------------- C34
\* C34: in manual mode only the action terminate removes the process:
\* execute_action with another action on a registered manual-mode process
\* leaves the process, its held units and its edges in the graph.
OnlyTerminateRemoves ==
    [][\A action \in RecoveryActions \ {"terminate"}, v \in ExecuteIds :
          ExecuteAction(action, v) /\ IsManualMode(v) /\ InSeq(ToStr(v), detector.processes)
              => detector' = detector]_vars

\* ----------------------------------------------------------------------- C31
\* C31: the recovery loop, started in any state, reaches a state where
\* detect_deadlock reports no deadlock; no request of the loop is left without
\* a step to take; every round removes exactly one registered process, one of
\* the reported cycle; and no removed process is reported again: the loop
\* never registers a process, and every reported process is registered when
\* it is reported.
RecoveryMakesProgress ==
    /\ ~At("idle") ~> (At("recovery_done") /\ last.op = "detect" /\ ~last.ret)
    /\ [](At("recovery_detect") => DetectResponses(detector) # {})
    /\ [](At("recovery_execute") => last.ret /\ Range(last.procs) # {})
    /\ [][RecoveryExecute =>
            \E p \in Range(last.procs) :
                /\ InSeq(p, detector.processes) /\ InSeq(p, last.seq)
                /\ detector'.processes = Without(detector.processes, p)
                /\ Len(detector'.processes) = Len(detector.processes) - 1]_vars
    /\ [][~At("idle") => Range(detector'.processes) \subseteq Range(detector.processes)]_vars
    /\ [][RecoveryDetect => Range(last'.procs) \subseteq Range(detector.processes)]_vars

\* a round has removed one of two deadlocked processes
RoundRemovedOne ==
    /\ At("recovery_detect")
    /\ last.op = "execute_terminate" /\ last.ret
    /\ Len(detector.processes) = 1
    /\ HasCycle(detector)

====
